---- MODULE Spec2Model ----
(***************************************************************************)
(* A model of the rarebee-website servers.                                 *)
(*                                                                         *)
(*   src/server.js          the static file server (http.createServer)     *)
(*   src/unnamed/part_001   the form-relay server (express, multer,        *)
(*                          nodemailer): POST /api/career                  *)
(*                                                                         *)
(* Strings whose contents matter (paths, form fields, file names, the HTML *)
(* body) are sequences of one-character strings, so that normalisation,    *)
(* trimming, the extension test and escaping are computed and not assumed. *)
(* Paths follow Node's path.posix.                                         *)
(***************************************************************************)
EXTENDS Integers, Sequences, FiniteSets, TLC

\* ------------------------------------------------------------------ bounds

\* Number of chunks a client may put after the first "/" of a request target.
MaxChunks == 5

\* Number of POST /api/career requests that may be in flight together.
NReq == 2

\* Longest string of special characters submitted as a name or a file name.
MaxEscLen == 2

\* ------------------------------------------------------- character strings

Last(s) == s[Len(s)]

Front(s) == SubSeq(s, 1, Len(s) - 1)

StartsWith(s, p) == Len(s) >= Len(p) /\ SubSeq(s, 1, Len(p)) = p

EndsWith(s, p) == Len(s) >= Len(p) /\ SubSeq(s, Len(s) - Len(p) + 1, Len(s)) = p

RECURSIVE Concat(_)
\* Array.prototype.join(""): the parts one after the other.
Concat(parts) ==
  IF parts = <<>> THEN <<>> ELSE Head(parts) \o Concat(Tail(parts))

VARIABLES
  url,        \* req.url of the one request followed, a character string
  nchunks,    \* chunks the client has put into the request target so far
  spc,        \* "compose" | "reading" | "done": where that request is
  filePath,   \* the path handed to sendFile
  status,     \* the status code written (0: none yet)
  env,        \* form relay: process.env at startup
  req         \* form relay: req[r] is the state of POST /api/career request r

\* =========================================================================
\* The static server (src/server.js)
\* =========================================================================

staticVars == <<url, nchunks, spc, filePath, status>>

careerVars == <<env, req>>

vars == <<url, nchunks, spc, filePath, status, env, req>>

\* __dirname: an absolute directory, here /w.
baseDir == <<"/", "w">>

indexHtml == <<"/", "i", "n", "d", "e", "x", ".", "h", "t", "m", "l">>

\* The request targets Node's HTTP parser hands over start with "/"
\* (origin-form) or with a scheme and an authority (absolute-form).
OriginPrefix == <<"/">>

AbsolutePrefix == <<"h", "t", "t", "p", ":", "/", "/", "x", "/">>

\* What a client appends to the request target, one chunk at a time.
Chunks ==
  { <<".", ".", "/">>, <<".", ".", "\\">>, <<".", ".">>, <<".">>, <<"/">>, <<"a">> }

RECURSIVE SplitSlash(_)
\* The "/"-separated segments of a path (empty segments kept).
SplitSlash(p) ==
  IF p = <<>> THEN << <<>> >>
  ELSE LET rest == SplitSlash(Tail(p)) IN
       IF Head(p) = "/" THEN << <<>> >> \o rest
       ELSE << <<Head(p)>> \o Head(rest) >> \o Tail(rest)

RECURSIVE JoinSlash(_)
JoinSlash(segs) ==
  IF segs = <<>> THEN <<>>
  ELSE IF Len(segs) = 1 THEN Head(segs)
  ELSE Head(segs) \o <<"/">> \o JoinSlash(Tail(segs))

DotDot == <<".", ".">>

RECURSIVE NormalizeSegs(_, _, _)
\* path.posix normalizeString over the segments: "" and "." are dropped, ".."
\* removes the segment before it, and is kept only above the root of a
\* relative path.
NormalizeSegs(segs, res, allowAboveRoot) ==
  IF segs = <<>> THEN res
  ELSE LET s == Head(segs) IN
       IF s = <<>> \/ s = <<".">> THEN NormalizeSegs(Tail(segs), res, allowAboveRoot)
       ELSE IF s = DotDot THEN
         IF res # <<>> /\ Last(res) # DotDot
           THEN NormalizeSegs(Tail(segs), Front(res), allowAboveRoot)
         ELSE IF allowAboveRoot
           THEN NormalizeSegs(Tail(segs), Append(res, DotDot), allowAboveRoot)
         ELSE NormalizeSegs(Tail(segs), res, allowAboveRoot)
       ELSE NormalizeSegs(Tail(segs), Append(res, s), allowAboveRoot)

\* path.posix.normalize
normalize(p) ==
  IF p = <<>> THEN <<".">>
  ELSE LET isAbsolute == Head(p) = "/"
           trailingSeparator == Last(p) = "/"
           body == JoinSlash(NormalizeSegs(SplitSlash(p), <<>>, ~isAbsolute))
       IN IF body = <<>>
            THEN IF isAbsolute THEN <<"/">>
                 ELSE IF trailingSeparator THEN <<".", "/">> ELSE <<".">>
          ELSE (IF isAbsolute THEN <<"/">> ELSE <<>>)
               \o body
               \o (IF trailingSeparator THEN <<"/">> ELSE <<>>)

\* path.posix.join(a, b): the non-empty arguments joined by "/", normalized.
join(a, b) ==
  LET joined == IF a = <<>> THEN b
                ELSE IF b = <<>> THEN a
                ELSE a \o <<"/">> \o b
  IN IF joined = <<>> THEN <<".">> ELSE normalize(joined)

RECURSIVE StripLeadingParents(_)
\* .replace(/^(\.\.[/\\])+/, ""): every leading "../" or "..\" is removed.
StripLeadingParents(p) ==
  IF Len(p) >= 3 /\ p[1] = "." /\ p[2] = "." /\ p[3] \in {"/", "\\"}
    THEN StripLeadingParents(SubSeq(p, 4, Len(p)))
  ELSE p

urlPath(u) == IF u = <<"/">> THEN indexHtml ELSE u

safePath(u) == StripLeadingParents(normalize(urlPath(u)))

\* The request handler's filePath for req.url = u.
HandlerFilePath(u) == join(baseDir, safePath(u))

\* p is baseDir or a path below it.
UnderBase(p) == p = baseDir \/ StartsWith(p, baseDir \o <<"/">>)

StaticInit ==
  /\ url \in {OriginPrefix, AbsolutePrefix}
  /\ nchunks = 0
  /\ spc = "compose"
  /\ filePath = <<>>
  /\ status = 0

\* The client extends the request target it is about to send.
ClientAppend ==
  /\ spc = "compose"
  /\ nchunks < MaxChunks
  /\ \E c \in Chunks : url' = url \o c
  /\ nchunks' = nchunks + 1
  /\ UNCHANGED <<spc, filePath, status, careerVars>>

\* http.createServer's callback: the path is computed and the read started.
RequestHandler ==
  /\ spc = "compose"
  /\ filePath' = HandlerFilePath(url)
  /\ spc' = "reading"
  /\ UNCHANGED <<url, nchunks, status, careerVars>>

\* sendFile's fs.readFile callback: 404 on a read error, 200 otherwise.
sendFile ==
  /\ spc = "reading"
  /\ \E err \in BOOLEAN : status' = IF err THEN 404 ELSE 200
  /\ spc' = "done"
  /\ UNCHANGED <<url, nchunks, filePath, careerVars>>

StaticNext == ClientAppend \/ RequestHandler \/ sendFile

\* The static server at rest (while the form-relay server is followed).
StaticIdle ==
  /\ url = OriginPrefix
  /\ nchunks = 0
  /\ spc = "compose"
  /\ filePath = <<>>
  /\ status = 0

\* =========================================================================
\* The form-relay server (src/unnamed/part_001)
\* =========================================================================


Requests == 1..NReq

\* ---------------------------------------------------------- configuration

\* An environment variable that is not set.
Unset == "<unset>"

\* JavaScript's v || d for a string or undefined v.
OrElse(v, d) == IF v = Unset \/ v = "" THEN d ELSE v

SMTP_USER == OrElse(env.SMTP_USER, "")

SMTP_PASS == OrElse(env.SMTP_PASS, "")

DefaultRecipient == "rarebeelifesciences@yahoo.com"

\* The recipient without the fallback to the SMTP account.
CAREER_TO_EMAIL_NoAccount == OrElse(env.CAREER_TO_EMAIL, DefaultRecipient)

\* process.env.CAREER_TO_EMAIL || process.env.SMTP_USER || the default
CAREER_TO_EMAIL ==
  OrElse(env.CAREER_TO_EMAIL, OrElse(env.SMTP_USER, DefaultRecipient))

\* The character strings of the source's literals.

PDF == <<".", "p", "d", "f">>

DOC == <<".", "d", "o", "c">>

DOCX == <<".", "d", "o", "c", "x">>

AMP == <<"&", "a", "m", "p", ";">>

LT == <<"&", "l", "t", ";">>

GT == <<"&", "g", "t", ";">>

QUOT == <<"&", "q", "u", "o", "t", ";">>

HtmlName == <<"<", "p", ">", "<", "s", "t", "r", "o", "n", "g", ">", "N", "a", "m", "e", ":", "<", "/", "s", "t", "r", "o", "n", "g", ">", " ">>

HtmlPhone == <<"<", "p", ">", "<", "s", "t", "r", "o", "n", "g", ">", "P", "h", "o", "n", "e", ":", "<", "/", "s", "t", "r", "o", "n", "g", ">", " ">>

HtmlEmail == <<"<", "p", ">", "<", "s", "t", "r", "o", "n", "g", ">", "E", "m", "a", "i", "l", ":", "<", "/", "s", "t", "r", "o", "n", "g", ">", " ">>

HtmlCv == <<"<", "p", ">", "<", "s", "t", "r", "o", "n", "g", ">", "C", "V", " ", "a", "t", "t", "a", "c", "h", "e", "d", ":", "<", "/", "s", "t", "r", "o", "n", "g", ">", " ">>

HtmlClose == <<"<", "/", "p", ">">>

HtmlNoCv == <<"<", "p", ">", "N", "o", " ", "C", "V", " ", "a", "t", "t", "a", "c", "h", "e", "d", ".", "<", "/", "p", ">">>

DefaultCvName == <<"C", "V", ".", "p", "d", "f">>

\* ------------------------------------------------------- form field values

\* A value of req.body: absent, a string, or (from a JSON body or a repeated
\* multipart field) a value that is no string: truthy (a number, an array, an
\* object) or falsy (0, false, null).
Absent == [t |-> "absent", s |-> <<>>]

Str(s) == [t |-> "str", s |-> s]

OtherTruthy == [t |-> "truthy", s |-> <<>>]

OtherFalsy == [t |-> "falsy", s |-> <<>>]

WhiteSpace == {" ", "\t"}

RECURSIVE TrimStart(_)
TrimStart(s) ==
  IF s # <<>> /\ Head(s) \in WhiteSpace THEN TrimStart(Tail(s)) ELSE s

RECURSIVE TrimEnd(_)
TrimEnd(s) ==
  IF s # <<>> /\ Last(s) \in WhiteSpace THEN TrimEnd(Front(s)) ELSE s

\* String.prototype.trim
trim(s) == TrimEnd(TrimStart(s))

\* (req.body && req.body.f && req.body.f.trim()) throws a TypeError for a
\* truthy value that is no string: it has no trim method.
Throws(v) == v.t = "truthy"

\* (req.body && req.body.f && req.body.f.trim()) || "" when it does not throw.
Trimmed(v) == IF v.t = "str" THEN trim(v.s) ELSE <<>>

\* -------------------------------------------------------------- the upload

\* limits.fileSize: 5 MB, in bytes.
fileSize == 5 * 1024 * 1024

ToLower(c) ==
  CASE c = "P" -> "p" [] c = "D" -> "d" [] c = "F" -> "f"
    [] c = "O" -> "o" [] c = "C" -> "c" [] c = "X" -> "x"
    [] OTHER -> c

LowerCase(s) == [i \in 1..Len(s) |-> ToLower(s[i])]

\* The unanchored test: the extension anywhere in the name.
RECURSIVE allowedAnywhere(_)
allowedAnywhere(originalname) ==
  LET n == LowerCase(originalname) IN
  \/ StartsWith(n, PDF) \/ StartsWith(n, DOC)
  \/ (originalname # <<>> /\ allowedAnywhere(Tail(originalname)))

\* fileFilter's /\.(pdf|doc|docx)$/i.test(file.originalname)
allowed(originalname) ==
  LET n == LowerCase(originalname) IN
  EndsWith(n, PDF) \/ EndsWith(n, DOC) \/ EndsWith(n, DOCX)

\* ------------------------------------------------------------- escapeHtml

\* String.prototype.replace(/c/g, by): each c of s becomes by, in one pass
\* from left to right.
ReplaceAll(s, c, by) ==
  LET out[i \in 0..Len(s)] ==
        IF i = 0 THEN <<>>
        ELSE out[i - 1] \o (IF s[i] = c THEN by ELSE <<s[i]>>)
  IN out[Len(s)]

\* The replacements in the wrong order: "&" last.
escapeHtmlAmpLast(s) ==
  CHOOSE out \in
    { ReplaceAll(s3, "&", AMP) : s3 \in
      { ReplaceAll(s2, "\"", QUOT) : s2 \in
        { ReplaceAll(s1, ">", GT) : s1 \in
          { ReplaceAll(s0, "<", LT) : s0 \in {s} } } } } : TRUE

\* escapeHtml: the four replacements, each applied to the result of the one
\* before it, "&" first.
escapeHtml(s) ==
  CHOOSE out \in
    { ReplaceAll(s3, "\"", QUOT) : s3 \in
      { ReplaceAll(s2, ">", GT) : s2 \in
        { ReplaceAll(s1, "<", LT) : s1 \in
          { ReplaceAll(s0, "&", AMP) : s0 \in {s} } } } } : TRUE

\* ------------------------------------------------------------ the requests

NoFile == [present |-> FALSE, originalname |-> <<>>, size |-> 0]

File(originalname, size) ==
  [present |-> TRUE, originalname |-> originalname, size |-> size]

\* The multipart body's file part: none, the "cv" part, or a file part under
\* another field name.
NoPart == [kind |-> "none", originalname |-> <<>>, size |-> 0]

CvPart(originalname, size) ==
  [kind |-> "cv", originalname |-> originalname, size |-> size]

OtherPart == [kind |-> "other", originalname |-> <<"a", ".", "p", "d", "f">>, size |-> 1]

NoErr == [name |-> "", code |-> "", responseCode |-> 0, message |-> ""]

Err(name, code, responseCode, message) ==
  [name |-> name, code |-> code, responseCode |-> responseCode, message |-> message]

FileTypeMessage == "Only PDF or DOC/DOCX files are allowed for CV."

FileSizeMessage == "CV file must be under 5 MB."

RequiredMessage == "Name, phone number, and email are required."

NotConfiguredMessage == "Email service is not configured. Please try again later."

SuccessMessage ==
  "Your application has been submitted successfully. We will get back to you soon."

ServiceErrorMessage ==
  "Email service error. Please try again later or contact us directly."

FallbackMessage == "Something went wrong. Please try again."

\* A request before it arrives.
IdleRequest ==
  [ pc         |-> "idle",
    body       |-> [name |-> Absent, phone |-> Absent, email |-> Absent],
    part       |-> NoPart,
    file       |-> NoFile,
    err        |-> NoErr,
    handlerRuns |-> 0,
    transports |-> 0,
    sends      |-> <<>>,
    sendState  |-> "none",
    responses  |-> <<>>,
    log        |-> <<>> ]

\* res.status(code).json({success, message}): the response is written and
\* the request is over.
Respond(q, code, success, message) ==
  [q EXCEPT !.responses = Append(@, [status |-> code, json |-> TRUE,
                                     success |-> success, message |-> message]),
            !.pc = "done"]

\* console.error
Log(q, entries) == [q EXCEPT !.log = @ \o entries]

\* upload.single("cv"): the file part is filtered and read into memory, or an
\* error is passed on.
MulterSingle(q) ==
  LET p == q.part IN
  IF p.kind = "none" THEN [q EXCEPT !.pc = "handler"]
  ELSE IF p.kind = "other"
    THEN [q EXCEPT !.pc = "errmw",
                   !.err = Err("MulterError", "LIMIT_UNEXPECTED_FILE", 0, "Unexpected field")]
  ELSE IF ~allowed(p.originalname)
    THEN [q EXCEPT !.pc = "errmw", !.err = Err("Error", "", 0, FileTypeMessage)]
  ELSE IF p.size > fileSize
    THEN [q EXCEPT !.pc = "errmw",
                   !.err = Err("MulterError", "LIMIT_FILE_SIZE", 0, "File too large")]
  ELSE [q EXCEPT !.pc = "handler", !.file = File(p.originalname, p.size)]

\* err.message.includes("Only PDF"), over the messages an error can carry here.
IncludesOnlyPDF(message) == message = FileTypeMessage

\* The error middleware: app.use((err, req, res, next) => ...).
ErrorMiddlewareStep(q) ==
  IF q.err.name = "MulterError" /\ q.err.code = "LIMIT_FILE_SIZE"
    THEN Respond(q, 400, FALSE, FileSizeMessage)
  ELSE IF q.err.message # "" /\ IncludesOnlyPDF(q.err.message)
    THEN Respond(q, 400, FALSE, q.err.message)
  ELSE [q EXCEPT !.pc = "final"]

\* The test with && for ||.
IsAuthFailureBoth(err) == err.code = "EAUTH" /\ err.responseCode = 535

\* err.code === "EAUTH" || err.responseCode === 535
IsAuthFailure(err) == err.code = "EAUTH" \/ err.responseCode = 535

CatchLog == <<"Career form error:">>

\* The handler's catch block.
CatchBlock(q, err) ==
  LET logged == Log([q EXCEPT !.err = err], CatchLog) IN
  IF IsAuthFailure(err) THEN Respond(logged, 503, FALSE, ServiceErrorMessage)
  ELSE Respond(logged, 500, FALSE,
               IF err.message = "" THEN FallbackMessage ELSE err.message)

\* The TypeError of calling .trim on a value that has none.
TrimTypeError(field) ==
  Err("TypeError", "", 0,
      CASE field = "name" -> "req.body.name.trim is not a function"
        [] field = "phone" -> "req.body.phone.trim is not a function"
        [] OTHER -> "req.body.email.trim is not a function")

\* The check with && for ||.
CredentialsMissingBoth == SMTP_USER = "" /\ SMTP_PASS = ""

\* !SMTP_USER || !SMTP_PASS
CredentialsMissing == SMTP_USER = "" \/ SMTP_PASS = ""

NoConfigCheckLog == <<>>

ConfigCheckLog == <<"SMTP_USER and SMTP_PASS must be set for career emails.">>

\* The attachments array built from req.file.
Attachments(cvFile) ==
  IF cvFile.present
    THEN << [ filename |-> IF cvFile.originalname = <<>> THEN DefaultCvName
                           ELSE cvFile.originalname,
              size |-> cvFile.size ] >>
  ELSE <<>>

\* mailOptions.html
Html(name, phone, email, cvFile) ==
  Concat(<< HtmlName \o escapeHtml(name) \o HtmlClose,
            HtmlPhone \o escapeHtml(phone) \o HtmlClose,
            HtmlEmail \o escapeHtml(email) \o HtmlClose,
            IF cvFile.present
              THEN HtmlCv \o escapeHtml(cvFile.originalname) \o HtmlClose
            ELSE HtmlNoCv >>)

\* The message composed for a submission.
mailOptions(name, phone, email, cvFile) ==
  [ from        |-> [display |-> "RareBee Career Form", address |-> SMTP_USER],
    to          |-> CAREER_TO_EMAIL,
    replyTo     |-> email,
    subject     |-> <<"Career application: ">> \o name,
    text        |-> << <<"Name: ">> \o name, <<"Phone: ">> \o phone,
                       <<"Email: ">> \o email,
                       IF cvFile.present
                         THEN <<"CV attached: ">> \o cvFile.originalname
                       ELSE <<"No CV attached">> >>,
    html        |-> Html(name, phone, email, cvFile),
    attachments |-> Attachments(cvFile) ]

\* sendMail is called and the response written without waiting for it.
sendMailNoAwait(q, m) ==
  [q EXCEPT !.sends = Append(@, m), !.sendState = "pending", !.pc = "awaiting",
            !.responses = Append(@, [status |-> 200, json |-> TRUE,
                                     success |-> TRUE, message |-> SuccessMessage])]

\* await transporter.sendMail(mailOptions): the message is handed to the
\* transport and the handler suspends.
sendMail(q, m) ==
  [q EXCEPT !.sends = Append(@, m), !.sendState = "pending", !.pc = "awaiting"]

\* nodemailer.createTransport
createTransport(q) == [q EXCEPT !.transports = @ + 1]

\* Every request reads the first request's body.
bodyShared(r) == req[1].body

\* req.body of the request the handler was called for.
body(r) == req[r].body

\* The route handler up to its await: the fields are read, validated, the
\* configuration checked, the message composed and sendMail called.
CareerHandlerStep(r) ==
  LET q == req[r]
      b == body(r)
  IN IF Throws(b.name) THEN CatchBlock(q, TrimTypeError("name"))
     ELSE IF Throws(b.phone) THEN CatchBlock(q, TrimTypeError("phone"))
     ELSE IF Throws(b.email) THEN CatchBlock(q, TrimTypeError("email"))
     ELSE LET name == Trimmed(b.name)
              phone == Trimmed(b.phone)
              email == Trimmed(b.email)
          IN IF name = <<>> \/ phone = <<>> \/ email = <<>>
               THEN Respond(q, 400, FALSE, RequiredMessage)
             ELSE IF CredentialsMissing
               THEN Respond(Log(q, ConfigCheckLog), 503, FALSE, NotConfiguredMessage)
             ELSE sendMail(createTransport(q), mailOptions(name, phone, email, q.file))

\* The errors a send can fail with: an authentication failure by code, by
\* response code, another error with a message, and one without.
SendErrors ==
  { Err("Error", "EAUTH", 0, "Invalid login"),
    Err("Error", "", 535, "Authentication rejected"),
    Err("Error", "ESOCKET", 550, "Connection closed"),
    Err("Error", "", 0, "") }

\* ---------------------------------------------------------- the submissions

Body(n, p, e) == [name |-> n, phone |-> p, email |-> e]

NameValues ==
  { Absent, OtherTruthy, OtherFalsy, Str(<<>>), Str(<<" ", "\t">>),
    Str(<<" ", "a", " ">>), Str(<<"a">>) }

PhoneValues == { Absent, OtherTruthy, Str(<<" ">>), Str(<<"1">>) }

EmailValues ==
  { Absent, OtherTruthy, Str(<<>>), Str(<<"\t", "e", "@", "x", " ">>), Str(<<"e">>) }

\* The file parts: names with each allowed extension in either case, names
\* the filter refuses, and sizes around the limit.
Parts ==
  { NoPart, OtherPart }
  \cup { CvPart(<<"a">> \o PDF, n) : n \in {0, fileSize, fileSize + 1, 6 * 1024 * 1024} }
  \cup { CvPart(<<"a", ".", "e", "x", "e">>, n) : n \in {1, fileSize + 1} }
  \cup { CvPart(n, 1) :
           n \in { <<"a", ".", "D", "o", "c", "X">>, <<"a">> \o DOC,
                   <<"a">> \o PDF \o <<".", "e", "x", "e">>, <<"p", "d", "f">>,
                   <<"a">> \o DOCX \o <<"x">>, <<>> } }

SeqsUpTo(A, n) == UNION { [1..k -> A] : k \in 0..n }

EscAlphabet == {"&", "<", ">", "\"", ";", "a"}

Script == <<"<", "s", "c", "r", "i", "p", "t", ">">>

EscStrings == SeqsUpTo(EscAlphabet, MaxEscLen) \cup {Script}

\* Every combination of field values without a file; every file part with a
\* valid, an incomplete and a non-string body; and strings of special
\* characters as every field and as the file name.
FieldSubmissions ==
  { [body |-> Body(n, p, e), part |-> NoPart] :
      n \in NameValues, p \in PhoneValues, e \in EmailValues }

UploadSubmissions ==
  { [body |-> b, part |-> pt] :
      b \in { Body(Str(<<" ", "a", " ">>), Str(<<"1">>), Str(<<"\t", "e", "@", "x", " ">>)),
              Body(Absent, Str(<<"1">>), Str(<<"e">>)),
              Body(Str(<<"a">>), OtherTruthy, Absent) },
      pt \in Parts }

EscapeSubmissions ==
  { [body |-> Body(Str(x), Str(x), Str(x)), part |-> CvPart(x \o PDF, 1)] :
      x \in EscStrings }

\* Further requests in flight carry one of two submissions.
OtherSubmissions ==
  { [body |-> Body(Str(<<"b">>), Str(<<"2">>), Str(<<" ", "f">>)), part |-> NoPart],
    [body |-> Body(Str(<<"b">>), Absent, Str(<<"f">>)), part |-> NoPart] }

Submissions(r) ==
  IF r = 1 THEN FieldSubmissions \cup UploadSubmissions \cup EscapeSubmissions
  ELSE OtherSubmissions

\* The environments the server may be started in.
Envs ==
  [ SMTP_USER : {Unset, "", "relay@x"},
    SMTP_PASS : {Unset, "secret"},
    CAREER_TO_EMAIL : {Unset, "hr@x"} ]

\* ---------------------------------------------------------------- actions

CareerInit ==
  /\ env \in Envs
  /\ req = [r \in Requests |-> IdleRequest]

\* A client posts a submission to /api/career.
Arrive(r) ==
  /\ req[r].pc = "idle"
  /\ \E sub \in Submissions(r) :
       req' = [req EXCEPT ![r] = [IdleRequest EXCEPT !.pc = "multipart",
                                                     !.body = sub.body,
                                                     !.part = sub.part]]
  /\ UNCHANGED <<env, staticVars>>

\* upload.single("cv") parses the body.
Multipart(r) ==
  /\ req[r].pc = "multipart"
  /\ req' = [req EXCEPT ![r] = MulterSingle(req[r])]
  /\ UNCHANGED <<env, staticVars>>

\* The error middleware receives the parser's error.
ErrorMiddleware(r) ==
  /\ req[r].pc = "errmw"
  /\ req' = [req EXCEPT ![r] = ErrorMiddlewareStep(req[r])]
  /\ UNCHANGED <<env, staticVars>>

\* next(err): the framework's default error handler answers 500, and logs
\* the error unless the environment is "test".
FinalHandler(r) ==
  /\ req[r].pc = "final"
  /\ \E logs \in BOOLEAN :
       req' = [req EXCEPT ![r] =
                 [ Log(req[r], IF logs THEN <<"express: error">> ELSE <<>>)
                   EXCEPT !.responses = Append(@, [status |-> 500, json |-> FALSE,
                                                   success |-> FALSE,
                                                   message |-> "Internal Server Error"]),
                          !.pc = "done" ]]
  /\ UNCHANGED <<env, staticVars>>

\* The route handler runs up to its await, or to its response.
CareerHandler(r) ==
  /\ req[r].pc = "handler"
  /\ req' = [req EXCEPT ![r] = [CareerHandlerStep(r) EXCEPT !.handlerRuns = @ + 1]]
  /\ UNCHANGED <<env, staticVars>>

\* The send completes: the handler resumes and answers 200.
SendMailFulfilled(r) ==
  /\ req[r].pc = "awaiting"
  /\ req' = [req EXCEPT ![r] =
               Respond([req[r] EXCEPT !.sendState = "ok"], 200, TRUE, SuccessMessage)]
  /\ UNCHANGED <<env, staticVars>>

\* The send fails: the handler resumes in its catch block.
SendMailRejected(r) ==
  /\ req[r].pc = "awaiting"
  /\ \E err \in SendErrors :
       req' = [req EXCEPT ![r] = CatchBlock([req[r] EXCEPT !.sendState = "failed"], err)]
  /\ UNCHANGED <<env, staticVars>>

\* The steps of request r.
Step(r) ==
  \/ Multipart(r)
  \/ ErrorMiddleware(r)
  \/ FinalHandler(r)
  \/ CareerHandler(r)
  \/ SendMailFulfilled(r)
  \/ SendMailRejected(r)

\* The form-relay server before any request.
CareerIdle ==
  /\ env = [SMTP_USER |-> Unset, SMTP_PASS |-> Unset, CAREER_TO_EMAIL |-> Unset]
  /\ req = [r \in Requests |-> IdleRequest]

\* ----------------------------------------------------------- specifications

Init == StaticIdle /\ CareerInit

Next ==
  \/ \E r \in Requests : Arrive(r)
  \/ \E r \in Requests : Multipart(r)
  \/ \E r \in Requests : ErrorMiddleware(r)
  \/ \E r \in Requests : FinalHandler(r)
  \/ \E r \in Requests : CareerHandler(r)
  \/ \E r \in Requests : SendMailFulfilled(r)
  \/ \E r \in Requests : SendMailRejected(r)

\* The form-relay server.
Spec == Init /\ [][Next]_vars

StaticSpecInit == StaticInit /\ CareerIdle

StaticSpecNext == StaticNext

\* The static server.
StaticSpec == StaticSpecInit /\ [][StaticSpecNext]_vars

\* =========================================================================
\* Properties
\* =========================================================================

\* A field that is absent, empty or whitespace-only.
Missing(v) == v.t = "absent" \/ (v.t = "str" /\ trim(v.s) = <<>>)

\* A text field that is non-empty after trimming.
Filled(v) == v.t = "str" /\ trim(v.s) # <<>>

AllFilled(b) == Filled(b.name) /\ Filled(b.phone) /\ Filled(b.email)

JsonResponse(code, success, message) ==
  [status |-> code, json |-> TRUE, success |-> success, message |-> message]

\* No transport was created and no send attempted for the request.
NoNetwork(q) == q.transports = 0 /\ q.sends = <<>> /\ q.sendState = "none"

\* ---------------------------------------------------------------------- C1

\* C1: for every request URL the file path the static server's handler
\* computes is baseDir itself or a path below baseDir.
C1_PathConfined == spc # "compose" => UnderBase(filePath)

\* The same for origin-form request targets (those that start with "/"),
\* where it holds: an absolute path normalizes to one without ".." segments.
OriginFormConfined ==
  (spc # "compose" /\ Head(url) = "/") => UnderBase(filePath)

\* ---------------------------------------------------------------------- C2

\* C2: every request that reaches the route handler with one of name, phone
\* and email absent, empty or whitespace-only is answered 400 with the fixed
\* validation message, and no transport is created and no send attempted,
\* whatever the SMTP credentials.
C2_MissingFieldRejected ==
  \A r \in Requests :
    LET q == req[r] IN
    (q.handlerRuns > 0
       /\ (Missing(q.body.name) \/ Missing(q.body.phone) \/ Missing(q.body.email)))
    => /\ q.responses = <<JsonResponse(400, FALSE, RequiredMessage)>>
       /\ NoNetwork(q)

\* ---------------------------------------------------------------------- C3

\* C3 as stated: every request with all three text fields non-empty after
\* trimming, once answered, is answered 503 with success false when SMTP_USER
\* or SMTP_PASS is empty, with no transport created and no send attempted.
C3_Original ==
  \A r \in Requests :
    LET q == req[r] IN
    (q.pc = "done" /\ AllFilled(q.body) /\ (SMTP_USER = "" \/ SMTP_PASS = ""))
    => /\ q.responses = <<JsonResponse(503, FALSE, NotConfiguredMessage)>>
       /\ NoNetwork(q)

\* C3 amended: every request that reaches the route handler (it carries no
\* file part, or a cv part the multipart parser accepted) with all three text
\* fields non-empty after trimming is answered 503 with success false when
\* SMTP_USER or SMTP_PASS is empty, with no transport created and no send
\* attempted; and no request creates a transport or sends under such a
\* configuration.
C3_NotConfigured ==
  (SMTP_USER = "" \/ SMTP_PASS = "")
  => \A r \in Requests :
       LET q == req[r] IN
       /\ NoNetwork(q)
       /\ (q.handlerRuns > 0 /\ AllFilled(q.body))
          => q.responses = <<JsonResponse(503, FALSE, NotConfiguredMessage)>>

\* A complete submission with an accepted cv answered 503 by a server that
\* has a user but no password.
C3_Witness ==
  \E r \in Requests :
    LET q == req[r] IN
    /\ SMTP_USER # "" /\ SMTP_PASS = ""
    /\ q.pc = "done" /\ q.handlerRuns = 1 /\ AllFilled(q.body) /\ q.file.present
    /\ q.responses = <<JsonResponse(503, FALSE, NotConfiguredMessage)>>

\* ---------------------------------------------------------------------- C4

\* The extension after the last "." of a file name (empty without one).
RECURSIVE Extension(_)
Extension(n) ==
  IF n = <<>> THEN <<>>
  ELSE IF Last(n) = "." THEN <<>>
  ELSE IF "." \in {n[i] : i \in 1..Len(n)} THEN Append(Extension(Front(n)), Last(n))
  ELSE <<>>

BadExtension(n) ==
  LowerCase(Extension(n)) \notin
    { <<"p", "d", "f">>, <<"d", "o", "c">>, <<"d", "o", "c", "x">> }

TooLarge(size) == size > 5 * 1024 * 1024

\* C4: a cv part whose file name does not end in .pdf, .doc or .docx
\* (case-insensitive), or whose size exceeds 5 MB, is answered 400 with
\* success false (the file-type message for the extension, the size message
\* for the size), the route handler never runs and nothing is sent, whatever
\* the text fields and the SMTP configuration.
C4_RejectedUpload ==
  \A r \in Requests :
    LET q == req[r]
        p == q.part
    IN (p.kind = "cv" /\ (BadExtension(p.originalname) \/ TooLarge(p.size)))
       => /\ q.handlerRuns = 0
          /\ NoNetwork(q)
          /\ q.pc \in {"multipart", "errmw", "done"}
          /\ q.pc = "done"
             => q.responses =
                  << JsonResponse(400, FALSE,
                                  IF BadExtension(p.originalname) THEN FileTypeMessage
                                  ELSE FileSizeMessage) >>

\* An oversized .pdf sent with complete fields to a configured server is
\* answered 400 with the size message.
C4_Witness ==
  \E r \in Requests :
    LET q == req[r] IN
    /\ q.pc = "done" /\ q.part.kind = "cv"
    /\ ~BadExtension(q.part.originalname) /\ TooLarge(q.part.size)
    /\ AllFilled(q.body) /\ SMTP_USER # "" /\ SMTP_PASS # ""
    /\ q.responses = <<JsonResponse(400, FALSE, FileSizeMessage)>>

\* ---------------------------------------------------------------------- C5

\* C5: a failed send is terminal for its request: one send was attempted and
\* no second one, and the one response is 503 with the retry-later message
\* when the error has code EAUTH or response code 535, and otherwise 500 with
\* the error's message (the fallback when it has none).
C5_SendFailureTerminal ==
  \A r \in Requests :
    LET q == req[r] IN
    q.sendState = "failed"
    => /\ q.pc = "done"
       /\ Len(q.sends) = 1 /\ q.transports = 1
       /\ ~ENABLED Step(r)
       /\ q.responses =
            << IF q.err.code = "EAUTH" \/ q.err.responseCode = 535
                 THEN JsonResponse(503, FALSE, ServiceErrorMessage)
               ELSE JsonResponse(500, FALSE,
                                 IF q.err.message = "" THEN FallbackMessage
                                 ELSE q.err.message) >>

\* A send that failed with response code 535 and no EAUTH code: 503.
C5_Witness ==
  \E r \in Requests :
    LET q == req[r] IN
    /\ q.sendState = "failed" /\ q.err.code = "" /\ q.err.responseCode = 535
    /\ q.responses = <<JsonResponse(503, FALSE, ServiceErrorMessage)>>

\* ---------------------------------------------------------------------- C6

\* The messages handed to the transport for request r.
Sent(r) == { req[r].sends[i] : i \in 1..Len(req[r].sends) }

\* C6: every message handed to the transport has `to` equal to the
\* configured recipient (CAREER_TO_EMAIL of the environment, or SMTP_USER when
\* that is unset or empty) and `replyTo` equal to the submitter's trimmed
\* email, and carries one attachment when a cv part came with the request
\* and none otherwise.
C6_Envelope ==
  \A r \in Requests : \A m \in Sent(r) :
    /\ m.to = IF env.CAREER_TO_EMAIL \in {Unset, ""} THEN env.SMTP_USER
              ELSE env.CAREER_TO_EMAIL
    /\ m.replyTo = trim(req[r].body.email.s)
    /\ Len(m.attachments) = IF req[r].part.kind = "cv" THEN 1 ELSE 0

\* A message sent with CAREER_TO_EMAIL unset, an email that needed trimming
\* and a cv attached.
C6_Witness ==
  \E r \in Requests : \E m \in Sent(r) :
    /\ env.CAREER_TO_EMAIL = Unset /\ m.to = "relay@x"
    /\ req[r].body.email.s # m.replyTo
    /\ Len(m.attachments) = 1

\* ---------------------------------------------------------------------- C7

\* The entity of one character.
Entity(c) ==
  CASE c = "&" -> <<"&", "a", "m", "p", ";">>
    [] c = "<" -> <<"&", "l", "t", ";">>
    [] c = ">" -> <<"&", "g", "t", ";">>
    [] c = "\"" -> <<"&", "q", "u", "o", "t", ";">>
    [] OTHER -> <<c>>

\* A value with each of its characters replaced by its entity, once.
Entities(v) == Concat([i \in 1..Len(v) |-> Entity(v[i])])

Count(v, c) == Cardinality({i \in 1..Len(v) : v[i] = c})

RECURSIVE Contains(_, _)
Contains(v, part) ==
  StartsWith(v, part) \/ (v # <<>> /\ Contains(Tail(v), part))

\* The HTML body around the four rendered values.
HtmlAround(name, phone, email, hasCv, cvName) ==
  HtmlName \o name \o HtmlClose \o HtmlPhone \o phone \o HtmlClose
  \o HtmlEmail \o email \o HtmlClose
  \o (IF hasCv THEN HtmlCv \o cvName \o HtmlClose ELSE HtmlNoCv)

\* C7: the HTML body of every composed message holds the submitted name,
\* phone, email and cv file name with each &, <, > and " replaced by its
\* entity exactly once (no entity escaped again); no <, > or " of a submitted
\* value is in the body: it has only those of its own markup; and <script>
\* is rendered &lt;script&gt;.
C7_HtmlEscaped ==
  \A r \in Requests : \A m \in Sent(r) :
    LET b == req[r].body
        hasCv == req[r].part.kind = "cv"
        cvName == req[r].part.originalname
        markup == HtmlAround(<<>>, <<>>, <<>>, hasCv, <<>>)
    IN /\ m.html = HtmlAround(Entities(trim(b.name.s)), Entities(trim(b.phone.s)),
                              Entities(trim(b.email.s)), hasCv, Entities(cvName))
       /\ \A c \in {"<", ">", "\""} : Count(m.html, c) = Count(markup, c)
       /\ trim(b.name.s) = Script
          => Contains(m.html, HtmlName \o <<"&", "l", "t", ";", "s", "c", "r", "i", "p", "t",
                                            "&", "g", "t", ";">> \o HtmlClose)

\* A message composed for the name <script> and the file name <script>.pdf.
C7_Witness ==
  \E r \in Requests : \E m \in Sent(r) :
    /\ req[r].body.name.s = Script
    /\ req[r].part.originalname = Script \o PDF
    /\ Count(m.html, "&") = 8

\* ---------------------------------------------------------------------- C8

ErrorResponse(resp) == resp.json /\ ~resp.success

\* C8 as stated: every error response to POST /api/career (the 400s, the
\* 503s and the 500) is preceded by a server-side log entry for the request.
C8_Original ==
  \A r \in Requests : \A i \in 1..Len(req[r].responses) :
    ErrorResponse(req[r].responses[i]) => req[r].log # <<>>

\* C8 amended: every 503 and every 500 the route handler writes (missing
\* credentials, a failed send, an exception in the handler) is preceded by a
\* log entry of that request; the 400 responses (missing fields, a rejected
\* attachment) are written without any log entry.
C8_ServerErrorsLogged ==
  \A r \in Requests : \A i \in 1..Len(req[r].responses) :
    LET resp == req[r].responses[i] IN
    ErrorResponse(resp)
    => /\ resp.status \in {400, 500, 503}
       /\ resp.status \in {500, 503} => req[r].log # <<>>
       /\ resp.status = 400 => req[r].log = <<>>

\* A 503 for missing credentials with its log entry.
C8_Witness ==
  \E r \in Requests :
    /\ req[r].responses = <<JsonResponse(503, FALSE, NotConfiguredMessage)>>
    /\ req[r].log = <<"SMTP_USER and SMTP_PASS must be set for career emails.">>

\* ---------------------------------------------------------------------- C9

\* C9: while a request's send is pending no response is written for it; once
\* the send has settled exactly one response is; and a 200 with success true
\* is written only for a request whose own send completed successfully.
C9_ResponseAfterSend ==
  \A r \in Requests :
    LET q == req[r] IN
    /\ q.sendState = "pending" => q.responses = <<>> /\ q.pc = "awaiting"
    /\ q.sendState \in {"ok", "failed"} => Len(q.responses) = 1 /\ q.pc = "done"
    /\ \A i \in 1..Len(q.responses) :
         (q.responses[i].status = 200 \/ q.responses[i].success)
         => /\ q.sendState = "ok"
            /\ Len(q.sends) = 1
            /\ q.responses[i] = JsonResponse(200, TRUE, SuccessMessage)

\* A request answered 200 after its send completed.
C9_Witness ==
  \E r \in Requests :
    /\ req[r].sendState = "ok"
    /\ req[r].responses = <<JsonResponse(200, TRUE, SuccessMessage)>>

\* --------------------------------------------------------------------- C10

\* What a request got is explained by its own submission and its own send.
C10_OwnInputs ==
  \A r \in Requests :
    LET q == req[r] IN
    /\ \A m \in Sent(r) :
         /\ AllFilled(q.body)
         /\ m.replyTo = trim(q.body.email.s)
         /\ m.subject = <<"Career application: ">> \o trim(q.body.name.s)
         /\ Len(m.attachments) = IF q.part.kind = "cv" THEN 1 ELSE 0
    /\ \A i \in 1..Len(q.responses) :
         LET resp == q.responses[i] IN
         /\ resp.status = 200 => AllFilled(q.body) /\ q.sendState = "ok"
         /\ resp.message = RequiredMessage => ~AllFilled(q.body)
         /\ resp.message \in {FileTypeMessage, FileSizeMessage} => q.part.kind = "cv"

\* A step changes one request and nothing else, and never a submission that
\* has arrived.
C10_Frame ==
  /\ env' = env
  /\ \A r \in Requests :
       /\ req'[r] # req[r] => \A o \in Requests \ {r} : req'[o] = req[o]
       /\ req[r].pc # "idle" => req'[r].body = req[r].body /\ req'[r].part = req[r].part

\* Whatever the other requests are waiting for, a request that is not
\* waiting for its own send can take its next step, and a pending send can
\* complete.
C10_NonBlocking ==
  \A r \in Requests :
    /\ req[r].pc \in {"multipart", "errmw", "final", "handler"} => ENABLED Step(r)
    /\ req[r].pc = "awaiting" => ENABLED SendMailFulfilled(r)

\* C10: with several requests in flight, in any interleaving, each request's
\* message and response come from its own fields, attachment and send; no
\* step of one request changes another request or a submission; and a
\* request whose send is pending blocks no other request.
C10_Independent ==
  [](C10_OwnInputs /\ C10_NonBlocking) /\ [][C10_Frame]_vars

\* One request is answered while another one's send is still pending.
C10_Witness ==
  \E r, o \in Requests :
    /\ r # o
    /\ req[r].sendState = "pending"
    /\ req[o].pc = "done" /\ Len(req[o].responses) = 1 /\ req[o].sendState = "ok"

====
